---- MODULE Spec2Model ----
(***************************************************************************)
(* d4csv: reverse pricing of ticket sales.  The module models the batch    *)
(* catalog, the candidate enumerator (PricingMatch::all_priced), the       *)
(* candidate cache, ingestion into the ledger (SalesPlus::from_sales), the *)
(* three ambiguity solvers and the loop of App::try_load.                  *)
(***************************************************************************)
EXTENDS Integers, Sequences, FiniteSets, TLC

VARIABLES ctx, store, ret, sales, pc, last, res, passes

vars == <<ctx, store, ret, sales, pc, last, res, passes>>

(***************************************************************************)
(* Bounds of the model.                                                    *)
(***************************************************************************)
\* longest ledger that from_sales builds
MaxSales == 3
\* largest price asked of the cache for the small catalogs
MaxPrice == 9
\* most distinct prices asked of one cache
MaxCached == 3
\* largest original amount, in cents, that a fee is applied to
MaxAmount == 24

(***************************************************************************)
(* Option<T>                                                               *)
(***************************************************************************)
None == [tag |-> "None"]

Some(x) == [tag |-> "Some", v |-> x]

(***************************************************************************)
(* ticket/batchnum.rs, ticket/batch.rs                                     *)
(***************************************************************************)
Promo == [tag |-> "Promo"]

Numbered(n) == [tag |-> "Numbered", n |-> n]

inum(bn) == IF bn.tag = "Promo" THEN 0 ELSE bn.n

\* impl From<usize> for BatchNum
BatchNum_from(n) == IF n = 0 THEN Promo ELSE Numbered(n)

\* impl PartialOrd for BatchNum
partial_cmp(a, b) ==
  IF a.tag = "Promo" /\ b.tag = "Promo" THEN "Equal"
  ELSE IF a.tag = "Promo" THEN "Less"
  ELSE IF b.tag = "Promo" THEN "Greater"
  ELSE IF a.n < b.n THEN "Less"
  ELSE IF a.n = b.n THEN "Equal"
  ELSE "Greater"

Batch(num, price) == [num |-> num, price |-> price]

\* BatchPrices is a map BatchNum -> price; entry i of the list is batch i
iter2bp(list) ==
  [bn \in {BatchNum_from(i - 1) : i \in DOMAIN list} |-> list[inum(bn) + 1]]

\* the batches of a BatchPrices, in no particular order
bp2iter(bp) == {Batch(bn, bp[bn]) : bn \in DOMAIN bp}

(***************************************************************************)
(* sale/price_deriving.rs                                                  *)
(***************************************************************************)
\* BatchAmount(Batch, usize): fields .0 and .1 are [1] and [2]
BatchAmount(b, a) == <<b, a>>

ba_price(ba) == ba[1].price * ba[2]

\* Range { start, end }: start inclusive, end exclusive
Range(start, end) == {n \in start..(end - 1) : TRUE}

ba_iter(batch, range) == {BatchAmount(batch, n) : n \in range}

Multiple(ba) == [kind |-> "Multiple", a |-> ba]

PromoCombo(pba, ba) == [kind |-> "PromoCombo", a |-> pba, b |-> ba]

TurnOfBatch(ba1, ba2) == [kind |-> "TurnOfBatch", a |-> ba1, b |-> ba2]

price(m) ==
  IF m.kind = "Multiple" THEN ba_price(m.a)
  ELSE ba_price(m.a) + ba_price(m.b)

tickets(m) ==
  IF m.kind = "Multiple" THEN m.a[2]
  ELSE m.a[2] + m.b[2]

\* the batches a match refers to
batches(m) ==
  IF m.kind = "Multiple" THEN {m.a[1]}
  ELSE {m.a[1], m.b[1]}

\* the batch the sale progression is at right after this match
batch_after(m) ==
  IF m.kind = "Multiple" THEN m.a[1]
  ELSE m.b[1]

SetMin(S) == CHOOSE x \in S : \A y \in S : x <= y

\* all_priced line 74 divides by the minimum price
all_priced_panics(p, c) ==
  /\ bp2iter(c.batches) # {}
  /\ SetMin({b.price : b \in bp2iter(c.batches)}) = 0

\* worst-case amount, line 74
worst(p, c) ==
  p \div SetMin({b.price : b \in bp2iter(c.batches)}) + 1

\* all_multiples comparing the unit price, not the total, with the price
all_multiples_unit(p, c) ==
  LET wr == Range(1, worst(p, c))
      allba == UNION {ba_iter(b, wr) : b \in bp2iter(c.batches)}
  IN  {Multiple(ba) : ba \in {x \in allba : x[1].price = p}}

\* all_multiples searching one quantity less than the worst-case range
all_multiples_short(p, c) ==
  LET wr == Range(1, worst(p, c) - 1)
      allba == UNION {ba_iter(b, wr) : b \in bp2iter(c.batches)}
  IN  {Multiple(ba) : ba \in {x \in allba : ba_price(x) = p}}

\* lines 81-89
all_multiples(p, c) ==
  LET wr == Range(1, worst(p, c))
      allba == UNION {ba_iter(b, wr) : b \in bp2iter(c.batches)}
  IN  {Multiple(ba) : ba \in {x \in allba : ba_price(x) = p}}

\* lines 90-115
all_promo_combos(p, c) ==
  LET w == worst(p, c)
      wr == Range(1, w)
      allba == UNION {ba_iter(b, wr) : b \in bp2iter(c.batches)}
      opt_promo == {b \in bp2iter(c.batches) : b.num = Promo}
      pr == Range(1, IF c.promo_limit = None THEN w ELSE c.promo_limit.v)
      bi == {ba \in allba : partial_cmp(ba[1].num, Promo) = "Greater"}
  IN  UNION {
        {cand \in {PromoCombo(pba, ba) :
                     pba \in ba_iter(promo, pr),
                     ba \in {x \in bi : inum(x[1].num) = 1}} :
           price(cand) = p}
        : promo \in opt_promo}

\* all_turns over the non-promo adjacent pairs only
all_turns_nonpromo(p, c) ==
  LET wr == Range(1, worst(p, c))
      pairs == {bb \in bp2iter(c.batches) \X bp2iter(c.batches) :
                  /\ inum(bb[2].num) - inum(bb[1].num) = 1
                  /\ bb[1].num # Promo}
  IN  UNION {
        {cand \in {TurnOfBatch(ba1, ba2) :
                     ba1 \in ba_iter(bb[1], wr),
                     ba2 \in ba_iter(bb[2], wr)} :
           price(cand) = p}
        : bb \in pairs}

\* lines 116-134
all_turns(p, c) ==
  LET wr == Range(1, worst(p, c))
      pairs == {bb \in bp2iter(c.batches) \X bp2iter(c.batches) :
                  inum(bb[2].num) - inum(bb[1].num) = 1}
  IN  UNION {
        {cand \in {TurnOfBatch(ba1, ba2) :
                     ba1 \in ba_iter(bb[1], wr),
                     ba2 \in ba_iter(bb[2], wr)} :
           price(cand) = p}
        : bb \in pairs}

\* PricingMatch::all_priced; the Vec has no duplicates and its order is the
\* iteration order of a HashMap, so it is modelled as a set
all_priced(p, c) ==
  IF bp2iter(c.batches) = {} THEN {}
  ELSE all_multiples(p, c) \cup all_promo_combos(p, c) \cup all_turns(p, c)

Precise(m) == [kind |-> "Precise", m |-> m]

Ambiguous(hs) == [kind |-> "Ambiguous", hs |-> hs]

NoMatch == [kind |-> "NoMatch"]

\* from_iter keeping a single match in an Ambiguous candidate
from_iter_loose(hs) ==
  IF Cardinality(hs) = 0 THEN NoMatch
  ELSE Ambiguous(hs)

\* impl FromIterator<PricingMatch> for PricingCandidate
from_iter(hs) ==
  IF Cardinality(hs) = 0 THEN NoMatch
  ELSE IF Cardinality(hs) = 1 THEN Precise(CHOOSE m \in hs : TRUE)
  ELSE Ambiguous(hs)

\* PricingCandidate::from_price
from_price(p, c) == from_iter(all_priced(p, c))

\* a cache that answers with whatever entry it holds, whatever the key
cache_from_price_anykey(st, p, c) ==
  IF DOMAIN st # {}
  THEN [pc |-> st[CHOOSE q \in DOMAIN st : TRUE], store |-> st, hit |-> TRUE]
  ELSE LET cand == from_price(p, c)
       IN  [pc |-> cand,
            hit |-> FALSE,
            store |-> [q \in DOMAIN st \cup {p} |-> cand]]

\* PricingCandidateCache::from_price: the value returned, the new store and
\* whether the price was found in the store
cache_from_price(st, p, c) ==
  IF p \in DOMAIN st
  THEN [pc |-> st[p], store |-> st, hit |-> TRUE]
  ELSE LET cand == from_price(p, c)
       IN  [pc |-> cand,
            hit |-> FALSE,
            store |-> [q \in DOMAIN st \cup {p} |->
                         IF q = p THEN cand ELSE st[q]]]

\* the matches a candidate holds
matches(cand) ==
  IF cand.kind = "Precise" THEN {cand.m}
  ELSE IF cand.kind = "Ambiguous" THEN cand.hs
  ELSE {}

(***************************************************************************)
(* context.rs                                                              *)
(***************************************************************************)
SalesContext(fee, list, limit) ==
  [online_fee |-> fee, batches |-> iter2bp(list), promo_limit |-> limit]

\* the fee of SalesContext::default
DefaultFee == <<11, 10>>

(***************************************************************************)
(* sale/kind.rs, sale.rs                                                   *)
(***************************************************************************)
Online(fee) == [tag |-> "Online", fee |-> fee]

Offline == [tag |-> "Offline"]

apply_fee(kind, p) ==
  IF kind.tag = "Online" THEN (p * kind.fee[1]) \div kind.fee[2] ELSE p

undo_fee(kind, p) ==
  IF kind.tag = "Online" THEN (p * kind.fee[2]) \div kind.fee[1] ELSE p

\* the fields of a Sale that pricing and the solvers read
Sale(value, kind, name) ==
  [value |-> value, sale_kind |-> kind, seller_name |-> name]

real_price(s) == undo_fee(s.sale_kind, s.value)

SellerOnline == [tag |-> "Online"]

SellerOffline(name) == [tag |-> "Offline", name |-> name]

\* Sale::seller
seller(s) ==
  IF s.sale_kind.tag = "Online" THEN Some(SellerOnline)
  ELSE IF s.seller_name = None THEN None
  ELSE Some(SellerOffline(s.seller_name.v))

(***************************************************************************)
(* sale/plus.rs                                                            *)
(***************************************************************************)
\* SalePlus::from taking a member of an ambiguous candidate as the match
SalePlus_from_first(s, cnd) ==
  [sale |-> s,
   pricecand |-> cnd,
   pricematch |-> IF cnd.kind = "Precise" THEN Some(cnd.m)
                  ELSE IF cnd.kind = "Ambiguous"
                  THEN Some(CHOOSE m \in cnd.hs : TRUE)
                  ELSE None]

\* impl From<(Sale, PricingCandidate)> for SalePlus
SalePlus_from(s, cnd) ==
  [sale |-> s,
   pricecand |-> cnd,
   pricematch |-> IF cnd.kind = "Precise" THEN Some(cnd.m) ELSE None]

\* SalePlus::resolve
resolve(sp, pm) == [sp EXCEPT !.pricematch = Some(pm)]

ambiguous(ss) == {i \in DOMAIN ss : ss[i].pricecand.kind = "Ambiguous"}

villains(ss) == {i \in DOMAIN ss : ss[i].pricecand.kind = "NoMatch"}

oks(ss) == {i \in DOMAIN ss : ss[i].pricematch # None}

(***************************************************************************)
(* sale/ambiguity.rs                                                       *)
(***************************************************************************)
\* a solver returns the ledger it leaves and its count of changes
Outcome(ss, n) == [sales |-> ss, res |-> n]

do_nothing(ss) == Outcome(ss, 0)

\* temporal_visit looking at the candidate before the resolved match, so
\* that a resolved sale with an ambiguous candidate is resolved again
temporal_visit_again(sp, batch) ==
  IF batch # None /\ sp.pricecand.kind = "Ambiguous"
  THEN LET compat == {m \in sp.pricecand.hs : batch_after(m) = batch.v}
       IN  IF Cardinality(compat) = 0
           THEN [sp |-> sp, batch |-> batch, n |-> 0]
           ELSE IF Cardinality(compat) = 1
           THEN [sp |-> resolve(sp, CHOOSE m \in compat : TRUE),
                 batch |-> batch, n |-> 1]
           ELSE [sp |-> [sp EXCEPT !.pricecand = Ambiguous(compat)],
                 batch |-> batch, n |-> 0]
  ELSE IF sp.pricematch # None
  THEN [sp |-> sp, batch |-> Some(batch_after(sp.pricematch.v)), n |-> 0]
  ELSE [sp |-> sp, batch |-> batch, n |-> 0]

\* temporal_visit counting a narrowed candidate as a change
temporal_visit_countnarrow(sp, batch) ==
  IF sp.pricematch # None
  THEN [sp |-> sp, batch |-> Some(batch_after(sp.pricematch.v)), n |-> 0]
  ELSE IF batch # None /\ sp.pricecand.kind = "Ambiguous"
  THEN LET compat == {m \in sp.pricecand.hs : batch_after(m) = batch.v}
       IN  IF Cardinality(compat) = 0
           THEN [sp |-> sp, batch |-> batch, n |-> 0]
           ELSE IF Cardinality(compat) = 1
           THEN [sp |-> resolve(sp, CHOOSE m \in compat : TRUE),
                 batch |-> batch, n |-> 1]
           ELSE [sp |-> [sp EXCEPT !.pricecand = Ambiguous(compat)],
                 batch |-> batch, n |-> 1]
  ELSE [sp |-> sp, batch |-> batch, n |-> 0]

\* temporal_visit counting the sales that were resolved already
temporal_visit_countknown(sp, batch) ==
  IF sp.pricematch # None
  THEN [sp |-> sp, batch |-> Some(batch_after(sp.pricematch.v)), n |-> 1]
  ELSE IF batch # None /\ sp.pricecand.kind = "Ambiguous"
  THEN LET compat == {m \in sp.pricecand.hs : batch_after(m) = batch.v}
       IN  IF Cardinality(compat) = 0
           THEN [sp |-> sp, batch |-> batch, n |-> 0]
           ELSE IF Cardinality(compat) = 1
           THEN [sp |-> resolve(sp, CHOOSE m \in compat : TRUE),
                 batch |-> batch, n |-> 1]
           ELSE [sp |-> [sp EXCEPT !.pricecand = Ambiguous(compat)],
                 batch |-> batch, n |-> 0]
  ELSE [sp |-> sp, batch |-> batch, n |-> 0]

\* temporal_visit resolving to the first member of the candidate set, not of
\* the compatible ones
temporal_visit_first(sp, batch) ==
  IF sp.pricematch # None
  THEN [sp |-> sp, batch |-> Some(batch_after(sp.pricematch.v)), n |-> 0]
  ELSE IF batch # None /\ sp.pricecand.kind = "Ambiguous"
  THEN LET compat == {m \in sp.pricecand.hs : batch_after(m) = batch.v}
       IN  IF Cardinality(compat) = 0
           THEN [sp |-> sp, batch |-> batch, n |-> 0]
           ELSE IF Cardinality(compat) = 1
           THEN [sp |-> resolve(sp, CHOOSE m \in sp.pricecand.hs : TRUE),
                 batch |-> batch, n |-> 1]
           ELSE [sp |-> [sp EXCEPT !.pricecand = Ambiguous(compat)],
                 batch |-> batch, n |-> 0]
  ELSE [sp |-> sp, batch |-> batch, n |-> 0]

\* temporal_visit taking the known batch out of its Option (batch.take()) when
\* it filters a sale, so that the sales after it in the pass are skipped
temporal_visit_take(sp, batch) ==
  IF sp.pricematch # None
  THEN [sp |-> sp, batch |-> Some(batch_after(sp.pricematch.v)), n |-> 0]
  ELSE IF batch # None /\ sp.pricecand.kind = "Ambiguous"
  THEN LET compat == {m \in sp.pricecand.hs : batch_after(m) = batch.v}
       IN  IF Cardinality(compat) = 0
           THEN [sp |-> sp, batch |-> None, n |-> 0]
           ELSE IF Cardinality(compat) = 1
           THEN [sp |-> resolve(sp, CHOOSE m \in compat : TRUE),
                 batch |-> None, n |-> 1]
           ELSE [sp |-> [sp EXCEPT !.pricecand = Ambiguous(compat)],
                 batch |-> None, n |-> 0]
  ELSE [sp |-> sp, batch |-> batch, n |-> 0]

\* temporal_visit guessing, when no member ends on the known batch, that the
\* sale is one ticket of that batch
temporal_visit_guess(sp, batch) ==
  IF sp.pricematch # None
  THEN [sp |-> sp, batch |-> Some(batch_after(sp.pricematch.v)), n |-> 0]
  ELSE IF batch # None /\ sp.pricecand.kind = "Ambiguous"
  THEN LET compat == {m \in sp.pricecand.hs : batch_after(m) = batch.v}
       IN  IF Cardinality(compat) = 0
           THEN [sp |-> resolve(sp, Multiple(BatchAmount(batch.v, 1))),
                 batch |-> batch, n |-> 1]
           ELSE IF Cardinality(compat) = 1
           THEN [sp |-> resolve(sp, CHOOSE m \in compat : TRUE),
                 batch |-> batch, n |-> 1]
           ELSE [sp |-> [sp EXCEPT !.pricecand = Ambiguous(compat)],
                 batch |-> batch, n |-> 0]
  ELSE [sp |-> sp, batch |-> batch, n |-> 0]

\* temporal_visit writing the filtered set back even when it is empty
temporal_visit_clear(sp, batch) ==
  IF sp.pricematch # None
  THEN [sp |-> sp, batch |-> Some(batch_after(sp.pricematch.v)), n |-> 0]
  ELSE IF batch # None /\ sp.pricecand.kind = "Ambiguous"
  THEN LET compat == {m \in sp.pricecand.hs : batch_after(m) = batch.v}
       IN  IF Cardinality(compat) = 0
           THEN [sp |-> [sp EXCEPT !.pricecand = from_iter(compat)],
                 batch |-> batch, n |-> 0]
           ELSE IF Cardinality(compat) = 1
           THEN [sp |-> resolve(sp, CHOOSE m \in compat : TRUE),
                 batch |-> batch, n |-> 1]
           ELSE [sp |-> [sp EXCEPT !.pricecand = Ambiguous(compat)],
                 batch |-> batch, n |-> 0]
  ELSE [sp |-> sp, batch |-> batch, n |-> 0]

\* temporal_visit resolving a sale without counting it
temporal_visit_nocount(sp, batch) ==
  IF sp.pricematch # None
  THEN [sp |-> sp, batch |-> Some(batch_after(sp.pricematch.v)), n |-> 0]
  ELSE IF batch # None /\ sp.pricecand.kind = "Ambiguous"
  THEN LET compat == {m \in sp.pricecand.hs : batch_after(m) = batch.v}
       IN  IF Cardinality(compat) = 0
           THEN [sp |-> sp, batch |-> batch, n |-> 0]
           ELSE IF Cardinality(compat) = 1
           THEN [sp |-> resolve(sp, CHOOSE m \in compat : TRUE),
                 batch |-> batch, n |-> 0]
           ELSE [sp |-> [sp EXCEPT !.pricecand = Ambiguous(compat)],
                 batch |-> batch, n |-> 0]
  ELSE [sp |-> sp, batch |-> batch, n |-> 0]

\* what the loop of temporal_lookbehind does to sale ss[i], lines 51-70
temporal_visit(sp, batch) ==
  IF sp.pricematch # None
  THEN [sp |-> sp, batch |-> Some(batch_after(sp.pricematch.v)), n |-> 0]
  ELSE IF batch # None /\ sp.pricecand.kind = "Ambiguous"
  THEN LET compat == {m \in sp.pricecand.hs : batch_after(m) = batch.v}
       IN  IF Cardinality(compat) = 0
           THEN [sp |-> sp, batch |-> batch, n |-> 0]
           ELSE IF Cardinality(compat) = 1
           THEN [sp |-> resolve(sp, CHOOSE m \in compat : TRUE),
                 batch |-> batch, n |-> 1]
           ELSE [sp |-> [sp EXCEPT !.pricecand = Ambiguous(compat)],
                 batch |-> batch, n |-> 0]
  ELSE [sp |-> sp, batch |-> batch, n |-> 0]

RECURSIVE temporal_loop(_, _, _, _)
temporal_loop(ss, i, batch, r) ==
  IF i > Len(ss) THEN Outcome(ss, r)
  ELSE LET v == temporal_visit(ss[i], batch)
       IN  temporal_loop([ss EXCEPT ![i] = v.sp], i + 1, v.batch, r + v.n)

temporal_lookbehind(ss) == temporal_loop(ss, 1, None, 0)

\* SalesPlus::comb_simple (sale/plus.rs) is the same loop, written out again
comb_simple(ss) == temporal_loop(ss, 1, None, 0)

\* seller_visit filtering the sale's full enumeration again, not the set the
\* candidate holds now
seller_visit_reenumerate(sale, bhs, acc) ==
  IF sale.pricematch # None
  THEN {[sp |-> sale,
         bhs |-> Some(batches(sale.pricematch.v)),
         acc |-> acc \cup batches(sale.pricematch.v),
         n |-> 0]}
  ELSE IF bhs # None /\ sale.pricecand.kind = "Ambiguous"
  THEN LET cands == all_priced(real_price(sale.sale), ctx)
           newcands == {m \in cands : batches(m) \cap acc # {}}
           nonews == {m \in newcands : batches(m) \subseteq bhs.v}
       IN  IF Cardinality(newcands) > 0
           THEN IF Cardinality(newcands) = 1
                THEN {[sp |-> [sale EXCEPT
                                 !.pricematch = Some(CHOOSE m \in newcands : TRUE),
                                 !.pricecand = from_iter(newcands)],
                       bhs |-> bhs, acc |-> acc, n |-> 1]}
                ELSE IF Cardinality(nonews) = 1
                THEN {[sp |-> [sale EXCEPT
                                 !.pricematch = Some(first),
                                 !.pricecand = from_iter(newcands)],
                       bhs |-> bhs, acc |-> acc, n |-> 1]
                      : first \in newcands}
                ELSE {[sp |-> [sale EXCEPT !.pricecand = from_iter(newcands)],
                       bhs |-> bhs, acc |-> acc, n |-> 0]}
           ELSE {[sp |-> sale, bhs |-> bhs, acc |-> acc, n |-> 0]}
  ELSE {[sp |-> sale, bhs |-> bhs, acc |-> acc, n |-> 0]}

\* seller_visit taking, for a single remaining candidate, the first member of
\* the unfiltered set
seller_visit_firstofall(sale, bhs, acc) ==
  IF sale.pricematch # None
  THEN {[sp |-> sale,
         bhs |-> Some(batches(sale.pricematch.v)),
         acc |-> acc \cup batches(sale.pricematch.v),
         n |-> 0]}
  ELSE IF bhs # None /\ sale.pricecand.kind = "Ambiguous"
  THEN LET cands == sale.pricecand.hs
           newcands == {m \in cands : batches(m) \cap acc # {}}
           nonews == {m \in newcands : batches(m) \subseteq bhs.v}
       IN  IF Cardinality(newcands) > 0
           THEN IF Cardinality(newcands) = 1
                THEN {[sp |-> [sale EXCEPT
                                 !.pricematch = Some(first),
                                 !.pricecand = from_iter(newcands)],
                       bhs |-> bhs, acc |-> acc, n |-> 1]
                      : first \in cands}
                ELSE IF Cardinality(nonews) = 1
                THEN {[sp |-> [sale EXCEPT
                                 !.pricematch = Some(first),
                                 !.pricecand = from_iter(newcands)],
                       bhs |-> bhs, acc |-> acc, n |-> 1]
                      : first \in newcands}
                ELSE {[sp |-> [sale EXCEPT !.pricecand = from_iter(newcands)],
                       bhs |-> bhs, acc |-> acc, n |-> 0]}
           ELSE {[sp |-> sale, bhs |-> bhs, acc |-> acc, n |-> 0]}
  ELSE {[sp |-> sale, bhs |-> bhs, acc |-> acc, n |-> 0]}

\* what the inner loop of seller_lookbehind can do to one of the seller's
\* sales, lines 90-130: the set of results, one per iteration order of the
\* HashSet newcands, whose first element line 117 takes
seller_visit(sale, bhs, acc) ==
  IF sale.pricematch # None
  THEN {[sp |-> sale,
         bhs |-> Some(batches(sale.pricematch.v)),
         acc |-> acc \cup batches(sale.pricematch.v),
         n |-> 0]}
  ELSE IF bhs # None /\ sale.pricecand.kind = "Ambiguous"
  THEN LET cands == sale.pricecand.hs
           newcands == {m \in cands : batches(m) \cap acc # {}}
           nonews == {m \in newcands : batches(m) \subseteq bhs.v}
       IN  IF Cardinality(newcands) > 0
           THEN IF Cardinality(newcands) = 1
                THEN {[sp |-> [sale EXCEPT
                                 !.pricematch = Some(CHOOSE m \in newcands : TRUE),
                                 !.pricecand = from_iter(newcands)],
                       bhs |-> bhs, acc |-> acc, n |-> 1]}
                ELSE IF Cardinality(nonews) = 1
                THEN {[sp |-> [sale EXCEPT
                                 !.pricematch = Some(first),
                                 !.pricecand = from_iter(newcands)],
                       bhs |-> bhs, acc |-> acc, n |-> 1]
                      : first \in newcands}
                ELSE {[sp |-> [sale EXCEPT !.pricecand = from_iter(newcands)],
                       bhs |-> bhs, acc |-> acc, n |-> 0]}
           ELSE {[sp |-> sale, bhs |-> bhs, acc |-> acc, n |-> 0]}
  ELSE {[sp |-> sale, bhs |-> bhs, acc |-> acc, n |-> 0]}

\* the sales of one seller, in ledger order (the filter of lines 81-86)
RECURSIVE seller_loop(_, _, _, _, _, _)
seller_loop(ss, slr, i, bhs, acc, total) ==
  IF i > Len(ss) THEN {Outcome(ss, total)}
  ELSE IF seller(ss[i].sale) # Some(slr)
  THEN seller_loop(ss, slr, i + 1, bhs, acc, total)
  ELSE UNION {seller_loop([ss EXCEPT ![i] = v.sp], slr, i + 1,
                          v.bhs, v.acc, total + v.n)
              : v \in seller_visit(ss[i], bhs, acc)}

\* lines 77-79
sellers(ss) ==
  {seller(ss[i].sale).v : i \in {j \in DOMAIN ss : seller(ss[j].sale) # None}}

\* the outer loop over the sellers; sellers own disjoint sales, so the order
\* in which the HashSet yields them does not show in the result
RECURSIVE sellers_loop(_, _, _)
sellers_loop(ss, todo, total) ==
  IF todo = {} THEN {Outcome(ss, total)}
  ELSE LET slr == CHOOSE s \in todo : TRUE
       IN  UNION {sellers_loop(o.sales, todo \ {slr}, o.res)
                  : o \in seller_loop(ss, slr, 1, None, {}, total)}

\* seller_lookbehind: the set of outcomes of one pass
seller_lookbehind(ss) == sellers_loop(ss, sellers(ss), 0)

\* AmbiguitySolver::available
AmbiguitySolver == {"DoNothing", "TemporalLookbehind", "SellerLookBehind"}

\* impl From<AmbiguitySolver> for AmbiguitySolverFn, as a set of outcomes
solver_fn(solv, ss) ==
  IF solv = "DoNothing" THEN {do_nothing(ss)}
  ELSE IF solv = "TemporalLookbehind" THEN {temporal_lookbehind(ss)}
  ELSE seller_lookbehind(ss)

(***************************************************************************)
(* The inputs explored.                                                    *)
(***************************************************************************)
\* price lists of the catalogs
Scenario == <<5000, 6000>>

Small == <<2, 3, 4>>

Twins == <<7, 5, 3, 3>>

Gratis == <<0, 3>>

ScenarioPrices == {5000, 6000, 10000, 11000, 30000}

PromoLimits == {None, Some(1), Some(2)}

\* the prices asked of a cache over context c
Prices(c) ==
  IF c.batches = iter2bp(Scenario) THEN ScenarioPrices ELSE 0..MaxPrice

CacheContexts ==
  {SalesContext(DefaultFee, l, lim) : l \in {Small, Twins}, lim \in PromoLimits}
  \cup {SalesContext(DefaultFee, Scenario, None),
        SalesContext(DefaultFee, Gratis, None)}

LedgerContexts ==
  {SalesContext(DefaultFee, Twins, None), SalesContext(DefaultFee, Small, Some(2))}

\* the sales a CSV may hold: two named points of sale, an unnamed one, online
SaleUniverse(c) ==
  {Sale(v, Offline, Some("Kiosk-A")) : v \in {2, 3, 5, 6, 8}}
  \cup {Sale(v, Offline, Some("Kiosk-B")) : v \in {3, 8}}
  \cup {Sale(6, Offline, None), Sale(9, Online(c.online_fee), None)}

(***************************************************************************)
(* The cache on its own: any sequence of from_price calls on one cache.    *)
(***************************************************************************)
CacheInit ==
  /\ ctx \in CacheContexts
  /\ store = << >>
  /\ ret = None
  /\ sales = << >>
  /\ pc = "cache"
  /\ last = "none"
  /\ res = 0
  /\ passes = 0

\* one call of PricingCandidateCache::from_price; the division of all_priced
\* line 74 panics on a minimum price of 0
CacheFromPrice(p) ==
  /\ pc = "cache"
  /\ p \in DOMAIN store \/ Cardinality(DOMAIN store) < MaxCached
  /\ IF p \notin DOMAIN store /\ all_priced_panics(p, ctx)
     THEN /\ pc' = "panic"
          /\ UNCHANGED <<store, ret>>
     ELSE LET r == cache_from_price(store, p, ctx)
          IN  /\ store' = r.store
              /\ ret' = Some([price |-> p, pc |-> r.pc, hit |-> r.hit])
              /\ pc' = pc
  /\ UNCHANGED <<ctx, sales, last, res, passes>>

CacheNext == \E p \in Prices(ctx) : CacheFromPrice(p)

CacheSpec == CacheInit /\ [][CacheNext]_vars

(***************************************************************************)
(* The fee on its own: an original amount is charged through a channel     *)
(* (apply_fee) and the paid amount is read back (Sale::real_price).        *)
(***************************************************************************)
\* the fees explored: the default, a larger fee and a fee of 1
Fees == {DefaultFee, <<3, 2>>, <<1, 1>>}

FeeInit ==
  /\ ctx \in {SalesContext(fee, Small, None) : fee \in Fees}
  /\ store = << >>
  /\ ret = None
  /\ sales = << >>
  /\ pc = "fee"
  /\ last = "none"
  /\ res = 0
  /\ passes = 0

\* the channel charges the original amount p: the Sale of the CSV holds the
\* paid amount
FeeApply(kind, p) ==
  /\ pc = "fee"
  /\ ret' = Some([sale |-> Sale(apply_fee(kind, p), kind, None), price |-> p])
  /\ pc' = "paid"
  /\ UNCHANGED <<ctx, store, sales, last, res, passes>>

\* Sale::real_price of the sale that was paid
FeeUndo ==
  /\ pc = "paid"
  /\ res' = real_price(ret.v.sale)
  /\ pc' = "undone"
  /\ UNCHANGED <<ctx, store, ret, sales, last, passes>>

FeeNext ==
  \/ \E kind \in {Online(ctx.online_fee), Offline} :
       \E p \in 0..MaxAmount : FeeApply(kind, p)
  \/ FeeUndo

FeeSpec == FeeInit /\ [][FeeNext]_vars

(***************************************************************************)
(* The ledger: from_sales, then solver passes and the loop of try_load.    *)
(***************************************************************************)
Init ==
  /\ ctx \in LedgerContexts
  /\ store = << >>
  /\ ret = None
  /\ sales = << >>
  /\ pc = "from_sales"
  /\ last = "none"
  /\ res = 0
  /\ passes = 0

\* one iteration of the loop of SalesPlus::from_sales, plus.rs lines 148-151;
\* the sales arrive sorted by date (Sale::parse_csv), position is time order
FromSalesNext(s) ==
  /\ pc = "from_sales"
  /\ Len(sales) < MaxSales
  /\ LET r == cache_from_price(store, real_price(s), ctx)
     IN  /\ store' = r.store
         /\ ret' = Some([price |-> real_price(s), pc |-> r.pc, hit |-> r.hit])
         /\ sales' = Append(sales, SalePlus_from(s, r.pc))
  /\ UNCHANGED <<ctx, pc, last, res, passes>>

\* the iterator ends: from_sales returns the ledger and drops the cache
FromSalesEnd ==
  /\ pc = "from_sales"
  /\ pc' = "built"
  /\ store' = << >>
  /\ ret' = None
  /\ UNCHANGED <<ctx, sales, last, res, passes>>

\* one pass of a solver over a built ledger
Solve(solv) ==
  /\ pc \in {"built", "loaded"}
  /\ \E o \in solver_fn(solv, sales) :
       /\ sales' = o.sales
       /\ res' = o.res
  /\ last' = solv
  /\ UNCHANGED <<ctx, store, ret, pc, passes>>

\* one iteration of the loop of App::try_load, app.rs lines 48-50
TryLoadLoop ==
  /\ pc \in {"built", "loop"}
  /\ LET o == comb_simple(sales)
     IN  /\ sales' = o.sales
         /\ res' = o.res
         /\ pc' = IF o.res = 0 THEN "loaded" ELSE "loop"
  /\ passes' = passes + 1
  /\ last' = "comb_simple"
  /\ UNCHANGED <<ctx, store, ret>>

Next ==
  \/ \E s \in SaleUniverse(ctx) : FromSalesNext(s)
  \/ FromSalesEnd
  \/ \E solv \in AmbiguitySolver : Solve(solv)
  \/ TryLoadLoop

Spec == Init /\ [][Next]_vars

\* App::try_load alone: from_sales, then the loop, which runs to its end;
\* no other caller touches the ledger meanwhile
LoadNext ==
  \/ \E s \in SaleUniverse(ctx) : FromSalesNext(s)
  \/ FromSalesEnd
  \/ TryLoadLoop

FairSpec == Init /\ [][LoadNext]_vars /\ WF_vars(TryLoadLoop)

(***************************************************************************)
(* Properties of the enumerator and of the cache, under CacheSpec.         *)
(***************************************************************************)
\* C1: every match m that all_priced returns for a price P has m.price() = P,
\* whatever its variant, for every price asked of the cache.
C1_MatchPriceExact ==
  \A p \in DOMAIN store : \A m \in all_priced(p, ctx) : price(m) = p

\* the cache holds matches of all three variants
C1_Witness ==
  \A k \in {"Multiple", "PromoCombo", "TurnOfBatch"} :
    \E p \in DOMAIN store : \E m \in all_priced(p, ctx) : m.kind = k

\* C7: every entry of the cache, and the value the last call returned, is
\* the candidate PricingCandidate::from_price computes for that price,
\* whatever other prices were asked before.
C7_CacheAgrees ==
  /\ \A p \in DOMAIN store : store[p] = from_price(p, ctx)
  /\ ret # None =>
       /\ ret.v.price \in DOMAIN store
       /\ ret.v.pc = from_price(ret.v.price, ctx)

\* a later access, after two other prices were asked, returned an ambiguous
\* candidate from the store
C7_Witness ==
  /\ ret # None
  /\ ret.v.hit
  /\ ret.v.pc.kind = "Ambiguous"
  /\ Cardinality(DOMAIN store) >= 3

ScenarioCtx == SalesContext(DefaultFee, Scenario, None)

ScenarioPromo1 == BatchAmount(Batch(Promo, 5000), 1)

ScenarioFirst1 == BatchAmount(Batch(Numbered(1), 6000), 1)

C15_PromoRangeInclusive ==
  \A p \in DOMAIN store :
    (/\ ctx.promo_limit # None
     /\ {Promo, Numbered(1)} \subseteq DOMAIN ctx.batches) =>
      \A promoQty \in 1..ctx.promo_limit.v : \A nextQty \in 1..p :
        LET promo == Batch(Promo, ctx.batches[Promo])
            first == Batch(Numbered(1), ctx.batches[Numbered(1)])
        IN  promo.price * promoQty + first.price * nextQty = p =>
              PromoCombo(BatchAmount(promo, promoQty),
                         BatchAmount(first, nextQty)) \in all_priced(p, ctx)

\* C17: the Multiple matches are complete over the search bound: with
\* w = P / minPrice + 1, for every batch b of the catalog and every quantity q
\* in 1..w with b.price * q = P, the match Multiple((b, q)) is in the
\* candidate kept for P, for every price P asked of the cache.
C17_MultiplesComplete ==
  \A p \in DOMAIN store :
    \A b \in bp2iter(ctx.batches) : \A q \in 1..worst(p, ctx) :
      b.price * q = p => Multiple(BatchAmount(b, q)) \in matches(store[p])

\* the cache holds a Multiple of the largest quantity the search reaches,
\* w - 1, for a price of two or more tickets of the cheapest batch
C17_Witness ==
  \E p \in DOMAIN store : \E b \in bp2iter(ctx.batches) :
    /\ worst(p, ctx) >= 3
    /\ Multiple(BatchAmount(b, worst(p, ctx) - 1)) \in matches(store[p])

\* the promotional tickets a match holds
promo_tickets(m) ==
  (IF m.a[1].num = Promo THEN m.a[2] ELSE 0)
  + (IF m.kind # "Multiple" /\ m.b[1].num = Promo THEN m.b[2] ELSE 0)

\* C21: with a promo limit L set, no match returned for a price asked of the
\* cache holds more than L promotional tickets, whatever its variant:
\* Multiple on the Promotional batch, PromoCombo or TurnOfBatch from it.
C21_PromoLimitEverywhere ==
  \A p \in DOMAIN store :
    ctx.promo_limit # None =>
      \A m \in matches(store[p]) : promo_tickets(m) <= ctx.promo_limit.v

\* C12: a run always completes: for every price and every non-empty catalog
\* of non-negative prices, a zero-price batch included, the enumerator returns
\* a match set, so that every call of the cache ends with a candidate and
\* never in a failure.
C12_RunCompletes == pc # "panic"

(***************************************************************************)
(* Properties of the fee, under FeeSpec.                                   *)
(***************************************************************************)
\* C11: undo_fee inverts the fee: for every original amount p, the real
\* price of the sale that paid apply_fee(p) is p again, for an Online channel
\* of any fee (k, d) and for Offline.
C11_FeeRoundTrip ==
  pc = "undone" => res = ret.v.price

(***************************************************************************)
(* Properties of the ledger and of the solvers, under Spec and FairSpec.   *)
(***************************************************************************)
\* the candidate computed for a sale at ingestion
ingested(sp) == from_price(real_price(sp.sale), ctx)

\* a solver pass starts from a built ledger
InPass == pc \in {"built", "loop", "loaded"}

\* C2: over any pass of any solver, the set of matches held in the candidate
\* of every sale after the step is a subset of the set held before it.
C2_CandidatesNeverGrow ==
  [][\A i \in DOMAIN sales :
       /\ i \in DOMAIN sales'
       /\ matches(sales'[i].pricecand) \subseteq matches(sales[i].pricecand)]_vars

\* a pass has narrowed an ambiguous candidate to a smaller ambiguous one
C2_Witness ==
  /\ InPass
  /\ \E i \in DOMAIN sales :
       /\ sales[i].pricecand.kind = "Ambiguous"
       /\ sales[i].pricecand # ingested(sales[i])

\* C3: a resolved match is kept by every later step: pricematch = Some(m)
\* before a pass implies pricematch = Some(m) after it.
C3_ResolvedIsKept ==
  [][\A i \in DOMAIN sales :
       sales[i].pricematch # None =>
         /\ i \in DOMAIN sales'
         /\ sales'[i].pricematch = sales[i].pricematch]_vars

\* the loop of try_load ran a second pass over a ledger that holds a match
\* set at ingestion and a match set by the first pass
C3_Witness ==
  /\ pc = "loaded"
  /\ passes >= 2
  /\ \E i, j \in DOMAIN sales :
       /\ sales[i].pricecand.kind = "Precise"
       /\ sales[j].pricecand.kind = "Ambiguous"
       /\ sales[j].pricematch # None

\* C4: in every state of the ledger a sale whose candidate is Precise(m) has
\* the resolved match m.
C4_PreciseIsResolved ==
  \A i \in DOMAIN sales :
    sales[i].pricecand.kind = "Precise" =>
      sales[i].pricematch = Some(sales[i].pricecand.m)

\* a solver has turned an ambiguous candidate into a precise one
C4_Witness ==
  /\ InPass
  /\ \E i \in DOMAIN sales :
       /\ sales[i].pricecand.kind = "Precise"
       /\ ingested(sales[i]).kind = "Ambiguous"

Bigger(a, b) == IF a >= b THEN a ELSE b

\* C5 as claimed: the loop of try_load ends, after at most N passes over a
\* ledger of N sales.  (The part a finite run refutes: the count of passes.)
C5_Original == InPass => passes <= Len(sales)

\* C5 amended: the loop of try_load always ends, after at most max(N, 1)
\* passes over a ledger of N sales: at most N passes when N >= 1, and one
\* pass, which returns 0, over the empty ledger.  An iteration is always
\* possible and counts one pass, so the loop ends because, as long as it has
\* not stopped, it has made fewer than max(N, 1) passes.
C5_Amended ==
  /\ InPass => passes <= Bigger(Len(sales), 1)
  /\ pc = "loop" => passes < Bigger(Len(sales), 1)

\* the loop ended after as many passes as the ledger has sales
C5_Witness ==
  /\ pc = "loaded"
  /\ Len(sales) >= 2
  /\ passes = Len(sales)

\* C6: a pass of any solver over a ledger without an ambiguous candidate
\* returns 0 and leaves every candidate and every resolved match as it was.
C6_NoAmbiguityNoChange ==
  [][(InPass /\ ambiguous(sales) = {}) => (sales' = sales /\ res' = 0)]_vars

\* the seller solver has run over a ledger of precise and unmatched sales
C6_Witness ==
  /\ pc = "built"
  /\ last = "SellerLookBehind"
  /\ Len(sales) >= 2
  /\ ambiguous(sales) = {}
  /\ \A i \in DOMAIN sales : sales[i].pricecand = ingested(sales[i])
  /\ \E i \in DOMAIN sales : sales[i].pricematch # None

SetMax(S) == CHOOSE x \in S : \A y \in S : x >= y

\* the batch known when sale i is reached: batch_after of the nearest
\* earlier sale that has a resolved match
known_batch(ss, i) ==
  LET before == {j \in 1..(i - 1) : ss[j].pricematch # None}
  IN  IF before = {} THEN None
      ELSE Some(batch_after(ss[SetMax(before)].pricematch.v))

\* the members of the candidate set of sale i that end on the known batch
compatible(ss, i) ==
  {m \in matches(ss[i].pricecand) : Some(batch_after(m)) = known_batch(ss, i)}

\* sale i is unresolved and ambiguous, and one member ends on the known batch
one_compatible(ss, i) ==
  /\ ss[i].pricematch = None
  /\ ss[i].pricecand.kind = "Ambiguous"
  /\ Cardinality(compatible(ss, i)) = 1

TemporalPass == InPass /\ last' \in {"TemporalLookbehind", "comb_simple"}

\* C8: a temporal pass resolves every unresolved ambiguous sale that has, for
\* the batch known when it is reached, exactly one compatible member, to that
\* member, and counts one change for each such sale.
C8_TemporalResolves ==
  [][TemporalPass =>
       /\ \A i \in DOMAIN sales :
            one_compatible(sales, i) =>
              sales'[i].pricematch = Some(CHOOSE m \in compatible(sales, i) : TRUE)
       /\ res' = Cardinality({i \in DOMAIN sales : one_compatible(sales, i)})]_vars

TwinSecond1 == Multiple(BatchAmount(Batch(Numbered(2), 3), 1))

TwinThird1 == Multiple(BatchAmount(Batch(Numbered(3), 3), 1))

\* a temporal pass has resolved the candidates {Multiple((Numbered(2),1)),
\* Multiple((Numbered(3),1))} to the Numbered(2) match
C8_Witness ==
  /\ last = "TemporalLookbehind"
  /\ res >= 1
  /\ \E i \in DOMAIN sales :
       /\ sales[i].pricecand = Ambiguous({TwinSecond1, TwinThird1})
       /\ sales[i].pricematch = Some(TwinSecond1)

\* C13: in every state of the ledger, at ingestion and after any passes of
\* any solver, a candidate that is Ambiguous holds at least 2 distinct
\* matches; the same holds of the candidates the cache keeps.
C13_AmbiguousHasTwo ==
  /\ \A i \in DOMAIN sales :
       sales[i].pricecand.kind = "Ambiguous" =>
         Cardinality(sales[i].pricecand.hs) >= 2
  /\ \A p \in DOMAIN store :
       store[p].kind = "Ambiguous" => Cardinality(store[p].hs) >= 2

\* the seller solver has narrowed a candidate of three or more matches to
\* one that is still ambiguous
C13_Witness ==
  /\ last = "SellerLookBehind"
  /\ \E i \in DOMAIN sales :
       /\ sales[i].pricecand.kind = "Ambiguous"
       /\ Cardinality(sales[i].pricecand.hs) = 2
       /\ Cardinality(matches(ingested(sales[i]))) >= 3

\* the earlier sales of the seller of sale i that have a resolved match
seller_before(ss, i) ==
  {j \in 1..(i - 1) : /\ seller(ss[j].sale) = seller(ss[i].sale)
                      /\ ss[j].pricematch # None}

\* the batch set of the most recently resolved match of the seller of sale i
seller_recent(ss, i) ==
  IF seller_before(ss, i) = {} THEN None
  ELSE Some(batches(ss[SetMax(seller_before(ss, i))].pricematch.v))

\* the batches of all the resolved matches of that seller so far
seller_history(ss, i) ==
  UNION {batches(ss[j].pricematch.v) : j \in seller_before(ss, i)}

\* sale i is one a seller pass filters: it has a seller with a resolved
\* earlier sale, is unresolved and its candidate is Ambiguous
seller_filters(ss, i) ==
  /\ seller(ss[i].sale) # None
  /\ ss[i].pricematch = None
  /\ ss[i].pricecand.kind = "Ambiguous"
  /\ seller_recent(ss, i) # None

\* the history-filtered candidate set of sale i
history_filtered(ss, i) ==
  {m \in matches(ss[i].pricecand) : batches(m) \cap seller_history(ss, i) # {}}

\* its members that introduce no batch beyond the most recent match
no_new_batches(ss, i) ==
  {m \in history_filtered(ss, i) : batches(m) \subseteq seller_recent(ss, i).v}

\* the filtered set of sale i has several members, one without new batches
prefers_one(ss, i) ==
  /\ seller_filters(ss, i)
  /\ Cardinality(history_filtered(ss, i)) > 1
  /\ Cardinality(no_new_batches(ss, i)) = 1

\* the filtered set of sale i has one member
filters_to_one(ss, i) ==
  /\ seller_filters(ss, i)
  /\ Cardinality(history_filtered(ss, i)) = 1

SellerPass == InPass /\ last' = "SellerLookBehind"

\* C14: in a SellerLookBehind pass, a sale whose history-filtered candidate
\* set has more than one member, exactly one of which (c) has its batches
\* within the batch set of the seller's most recently resolved match, is
\* resolved to c, and the pass counts one change for it.
C14_SellerPrefersNoNewBatch ==
  [][SellerPass =>
       /\ \A i \in DOMAIN sales :
            prefers_one(sales, i) =>
              sales'[i].pricematch =
                Some(CHOOSE m \in no_new_batches(sales, i) : TRUE)
       /\ res' = Cardinality({i \in DOMAIN sales :
                                prefers_one(sales, i) \/ filters_to_one(sales, i)})]_vars

\* a pass of the temporal or of the seller solver that returns 0
ZeroPass == (TemporalPass \/ SellerPass) /\ res' = 0

\* C16 as claimed: whenever a pass of TemporalLookbehind or SellerLookBehind
\* returns 0, every sale's candidate set and resolved match are the same
\* after the pass as before it.
C16_Original ==
  [][ZeroPass =>
       \A i \in DOMAIN sales :
         /\ sales'[i].pricecand = sales[i].pricecand
         /\ sales'[i].pricematch = sales[i].pricematch]_vars

\* C16 amended: whenever a pass of TemporalLookbehind or SellerLookBehind
\* returns 0, it has resolved nothing: every sale's resolved match is the
\* same after the pass as before it, and its candidate is either the same or
\* an Ambiguous one narrowed to fewer of its members.
C16_Amended ==
  [][ZeroPass =>
       \A i \in DOMAIN sales :
         /\ sales'[i].pricematch = sales[i].pricematch
         /\ \/ sales'[i].pricecand = sales[i].pricecand
            \/ /\ sales[i].pricecand.kind = "Ambiguous"
               /\ sales'[i].pricecand.kind = "Ambiguous"
               /\ sales'[i].pricecand.hs \subseteq sales[i].pricecand.hs]_vars

\* the loop of try_load stopped after one pass, which returned 0, over a
\* ledger with a narrowed, unresolved candidate
C16_Witness ==
  /\ pc = "loaded"
  /\ passes = 1
  /\ res = 0
  /\ \E i \in DOMAIN sales :
       /\ sales[i].pricematch = None
       /\ sales[i].pricecand.kind = "Ambiguous"
       /\ sales[i].pricecand # ingested(sales[i])

\* sale i is filtered by a temporal pass and no member ends on the known batch
temporal_filters_to_none(ss, i) ==
  /\ ss[i].pricematch = None
  /\ ss[i].pricecand.kind = "Ambiguous"
  /\ known_batch(ss, i) # None
  /\ compatible(ss, i) = {}

\* sale i is filtered by a seller pass and no member shares a batch with the
\* seller's history
seller_filters_to_none(ss, i) ==
  /\ seller_filters(ss, i)
  /\ history_filtered(ss, i) = {}

\* C18: in a temporal and in a seller pass, a sale whose candidate set the
\* continuity rule filters to the empty set is left exactly as it was, the
\* count of changes does not grow for it, and the pass goes on with the next
\* sales: the count is that of the sales the rule does resolve.
C18_EmptyFilterLeavesAlone ==
  [][/\ TemporalPass =>
          /\ \A i \in DOMAIN sales :
               temporal_filters_to_none(sales, i) => sales'[i] = sales[i]
          /\ res' = Cardinality({i \in DOMAIN sales : one_compatible(sales, i)})
     /\ SellerPass =>
          /\ \A i \in DOMAIN sales :
               seller_filters_to_none(sales, i) => sales'[i] = sales[i]
          /\ res' = Cardinality({i \in DOMAIN sales :
                       prefers_one(sales, i) \/ filters_to_one(sales, i)})]_vars

\* a temporal pass has left a sale whose filter was empty as ingested and has
\* resolved a later sale
C18_Witness ==
  /\ last = "TemporalLookbehind"
  /\ res >= 1
  /\ \E i, j \in DOMAIN sales :
       /\ i < j
       /\ temporal_filters_to_none(sales, i)
       /\ sales[i].pricecand = ingested(sales[i])
       /\ sales[j].pricecand.kind = "Ambiguous"
       /\ sales[j].pricematch # None

\* C19: in every state of the ledger the resolved match m of a sale is one of
\* the matches enumerated for the sale at ingestion, so that m.price() is the
\* sale's real_price().
C19_MatchAccountsForPrice ==
  \A i \in DOMAIN sales :
    sales[i].pricematch # None =>
      /\ sales[i].pricematch.v \in matches(ingested(sales[i]))
      /\ price(sales[i].pricematch.v) = real_price(sales[i].sale)

\* a pass has resolved an online sale, whose real price is not the amount
\* paid, and a seller pass an offline one
C19_Witness ==
  /\ last = "SellerLookBehind"
  /\ \E i, j \in DOMAIN sales :
       /\ sales[i].sale.sale_kind.tag = "Online"
       /\ real_price(sales[i].sale) # sales[i].sale.value
       /\ ingested(sales[i]).kind = "Ambiguous"
       /\ sales[i].pricematch # None
       /\ sales[j].sale.sale_kind.tag = "Offline"
       /\ ingested(sales[j]).kind = "Ambiguous"
       /\ sales[j].pricecand.kind = "Precise"

\* C20 as claimed: after ingestion and after any passes, every sale is in
\* exactly one of oks(), ambiguous() and villains(), and the three counts add
\* up to the number of sales.
C20_Original ==
  InPass =>
    /\ oks(sales) \cup ambiguous(sales) \cup villains(sales) = DOMAIN sales
    /\ oks(sales) \cap ambiguous(sales) = {}
    /\ oks(sales) \cap villains(sales) = {}
    /\ ambiguous(sales) \cap villains(sales) = {}
    /\ Cardinality(oks(sales)) + Cardinality(ambiguous(sales))
         + Cardinality(villains(sales)) = Len(sales)

\* C20 amended: after ingestion and after any passes, every sale is in at
\* least one of oks(), ambiguous() and villains(), and villains() is disjoint
\* from the other two; right after ingestion the three views partition the
\* sales; after passes oks() and ambiguous() share the sales that a solver
\* resolved while their candidate stayed Ambiguous, so the three counts add
\* up to the number of sales plus the number of those.
C20_Amended ==
  InPass =>
    /\ oks(sales) \cup ambiguous(sales) \cup villains(sales) = DOMAIN sales
    /\ villains(sales) \cap (oks(sales) \cup ambiguous(sales)) = {}
    /\ last = "none" => oks(sales) \cap ambiguous(sales) = {}
    /\ \A i \in oks(sales) \cap ambiguous(sales) :
         ingested(sales[i]).kind = "Ambiguous"
    /\ Cardinality(oks(sales)) + Cardinality(ambiguous(sales))
         + Cardinality(villains(sales))
         = Len(sales) + Cardinality(oks(sales) \cap ambiguous(sales))

\* the loop of try_load has ended on a ledger with an unmatched sale and a
\* resolved sale whose candidate is still Ambiguous
C20_Witness ==
  /\ pc = "loaded"
  /\ villains(sales) # {}
  /\ oks(sales) \cap ambiguous(sales) # {}

\* a temporal pass that comes right after a temporal pass
SecondTemporalPass ==
  TemporalPass /\ last \in {"TemporalLookbehind", "comb_simple"}

\* C22: with the temporal solver one pass reaches the fixpoint: a temporal
\* pass that follows a temporal pass returns 0 and changes no sale, and the
\* loop of try_load makes at most 2 passes.
C22_TemporalOnePass ==
  [][/\ SecondTemporalPass => (res' = 0 /\ sales' = sales)
     /\ passes' <= 2]_vars

\* the loop of try_load has ended with its second pass, over a ledger of
\* three sales of which the first pass resolved one and narrowed none
C22_Witness ==
  /\ pc = "loaded"
  /\ last = "comb_simple"
  /\ passes = 2
  /\ res = 0
  /\ Len(sales) = 3
  /\ \E i \in DOMAIN sales :
       /\ sales[i].pricecand.kind = "Ambiguous"
       /\ sales[i].pricematch # None
  /\ \E i \in DOMAIN sales :
       /\ sales[i].pricecand.kind = "Ambiguous"
       /\ sales[i].pricematch = None

\* the sales of one seller, in ledger order
RECURSIVE theirs(_, _)
theirs(ss, slr) ==
  IF ss = << >> THEN << >>
  ELSE IF seller(Head(ss).sale) = Some(slr)
  THEN <<Head(ss)>> \o theirs(Tail(ss), slr)
  ELSE theirs(Tail(ss), slr)

\* C9: what a pass of seller_lookbehind does to the sales of one seller
\* depends on that seller's sales only: the ledger as ingested and the ledger
\* of that seller's sales alone give, after a pass, the same candidates and
\* resolved matches for the seller's sales.
C9_SellerIndependence ==
  (pc = "built" /\ last = "none") =>
    \A slr \in sellers(sales) :
      \A o1 \in seller_lookbehind(sales) :
        \A o2 \in seller_lookbehind(theirs(sales, slr)) :
          theirs(o1.sales, slr) = o2.sales

====
